---- MODULE Spec2Model ----
(***************************************************************************)
(* Model of font-metrics.js (the metrics editor of font-metrics-editor):   *)
(* the option arithmetic of modifyFont, the structured edit of the OS/2    *)
(* and hhea tables, the serialized SFNT container, the binary patcher      *)
(* patchHheaTable, and the run's exit paths.                               *)
(***************************************************************************)
EXTENDS Integers, Sequences, FiniteSets, TLC

(***************************************************************************)
(* JavaScript numbers.  The options are parsed by parseFloat and the       *)
(* metrics are computed in IEEE-754 binary64.  A double is a record        *)
(* [sign, m, e] standing for sign * m * 2^e, where m is a natural number   *)
(* of exactly 53 bits (or zero) held as little-endian limbs of 14 bits, so *)
(* that every intermediate product stays below 2^31.  Subnormals,          *)
(* infinities and NaN are outside the inputs the model draws.              *)
(***************************************************************************)
LimbBits == 14
LimbBase == 2 ^ LimbBits
MantissaBits == 53

RECURSIVE Strip(_)
Strip(N) ==
  IF N = <<>> THEN <<>>
  ELSE IF N[Len(N)] = 0 THEN Strip(SubSeq(N, 1, Len(N) - 1))
  ELSE N

RECURSIVE MulS(_, _, _)
MulS(N, s, c) ==
  IF N = <<>>
    THEN IF c = 0 THEN <<>> ELSE <<c % LimbBase>> \o MulS(<<>>, s, c \div LimbBase)
    ELSE LET t == Head(N) * s + c
         IN  <<t % LimbBase>> \o MulS(Tail(N), s, t \div LimbBase)

RECURSIVE DivS(_, _, _)
DivS(N, d, r) ==
  IF N = <<>> THEN <<<<>>, r>>
  ELSE LET cur  == r * LimbBase + N[Len(N)]
           rest == DivS(SubSeq(N, 1, Len(N) - 1), d, cur % d)
       IN  <<Append(rest[1], cur \div d), rest[2]>>

RECURSIVE BitLenSmall(_)
BitLenSmall(n) == IF n = 0 THEN 0 ELSE 1 + BitLenSmall(n \div 2)

BitLen(N) ==
  IF N = <<>> THEN 0 ELSE (Len(N) - 1) * LimbBits + BitLenSmall(N[Len(N)])

RECURSIVE ToLimbs(_)
ToLimbs(n) == IF n = 0 THEN <<>> ELSE <<n % LimbBase>> \o ToLimbs(n \div LimbBase)

RECURSIVE ToInt(_)
ToInt(N) == IF N = <<>> THEN 0 ELSE Head(N) + LimbBase * ToInt(Tail(N))

Zeros(k) == [i \in 1..k |-> 0]

\* N * 2^s
Shl(N, s) == Strip(MulS(Zeros(s \div LimbBits) \o N, 2 ^ (s % LimbBits), 0))

\* <<N \div 2^s, N % 2^s # 0>>
ShrS(N, s) ==
  LET a    == s \div LimbBits
      low  == SubSeq(N, 1, IF a < Len(N) THEN a ELSE Len(N))
      high == SubSeq(N, a + 1, Len(N))
      qr   == DivS(high, 2 ^ (s % LimbBits), 0)
  IN  <<Strip(qr[1]), (\E i \in 1..Len(low) : low[i] # 0) \/ qr[2] # 0>>

IsOdd(N) == N # <<>> /\ N[1] % 2 = 1

DZero == [sign |-> 1, m |-> <<>>, e |-> 0]

\* Round-to-nearest-even of sign * (N + eps) * 2^e to 53 bits, where eps in
\* (0,1) iff sticky.
RoundToDouble(sign, N, e, sticky) ==
  LET L == BitLen(N)
  IN  IF L = 0 THEN DZero
      ELSE IF L <= MantissaBits
        THEN [sign |-> sign, m |-> Shl(N, MantissaBits - L), e |-> e - (MantissaBits - L)]
      ELSE
        LET s    == L - MantissaBits
            ts   == ShrS(N, s - 1)
            st   == ts[2] \/ sticky
            m0   == Strip(DivS(ts[1], 2, 0)[1])
            up   == IsOdd(ts[1]) /\ (st \/ IsOdd(m0))
            m1   == IF up THEN Strip(MulS(m0, 1, 1)) ELSE m0
        IN  IF BitLen(m1) > MantissaBits
              THEN [sign |-> sign, m |-> Strip(DivS(m1, 2, 0)[1]), e |-> e + s + 1]
              ELSE [sign |-> sign, m |-> m1, e |-> e + s]

\* The double of an integer below 2^31 (exact).
FromInt(n) ==
  RoundToDouble(IF n < 0 THEN -1 ELSE 1, ToLimbs(IF n < 0 THEN -n ELSE n), 0, FALSE)

\* x / d in binary64, d an integer in 1..65535
DDiv(x, d) ==
  LET qr == DivS(Shl(x.m, 2 * LimbBits), d, 0)
  IN  RoundToDouble(x.sign, Strip(qr[1]), x.e - 2 * LimbBits, qr[2] # 0)

\* x * u in binary64, u an integer in 0..65535
DMul(x, u) == RoundToDouble(x.sign, Strip(MulS(x.m, u, 0)), x.e, FALSE)

\* Math.round: the nearest integer, a tie going towards +Infinity.
MathRound(x) ==
  IF x.m = <<>> THEN 0
  ELSE IF x.e >= 0 THEN x.sign * ToInt(Shl(x.m, x.e))
  ELSE LET ts == ShrS(x.m, (-x.e) - 1)
           t  == ToInt(ts[1])
       IN  IF x.sign = 1 THEN (t + 1) \div 2
           ELSE IF ts[2] THEN -((t + 1) \div 2) ELSE -(t \div 2)

\* parseFloat of a decimal option value written with two decimals; h is the
\* value in hundredths ("90.05" is 9005).
ParseFloat(h) == DDiv(FromInt(h), 100)

(***************************************************************************)
(* Byte buffers.  A buffer is a sequence of bytes; the byte at JavaScript  *)
(* offset o is buf[o + 1].                                                 *)
(***************************************************************************)
Int16Min == -32768
Int16Max == 32767
DirectoryStart == 12
DirectoryEntrySize == 16
EntryOffsetField == 8
HheaAscenderField == 4
HheaDescenderField == 6
HheaLineGapField == 8

HheaTag == <<104, 104, 101, 97>>   \* 'hhea'
Os2Tag  == <<79, 83, 47, 50>>      \* 'OS/2'
GlyfTag == <<103, 108, 121, 102>>  \* 'glyf'

U16(v) == <<(v % 65536) \div 256, v % 256>>
U32(v) == <<v \div 16777216, (v \div 65536) % 256, (v \div 256) % 256, v % 256>>

ReadUInt16BE(buf, o) == buf[o + 1] * 256 + buf[o + 2]

ReadInt16BE(buf, o) ==
  LET u == ReadUInt16BE(buf, o) IN IF u > Int16Max THEN u - 65536 ELSE u

\* buffer.readUInt32BE.  The top byte saturates at 63 so that the value and
\* the field offsets added to it stay below 2^31; every value of 2^30 or
\* more lies far beyond the end of any buffer drawn here, as the true value
\* does.
ReadUInt32BE(buf, o) ==
  (IF buf[o + 1] > 63 THEN 63 ELSE buf[o + 1]) * 16777216
    + buf[o + 2] * 65536 + buf[o + 3] * 256 + buf[o + 4]

\* Whether buf.writeInt16BE(value, offset) returns instead of throwing
\* ERR_OUT_OF_RANGE.
CanWriteInt16BE(buf, value, offset) ==
  /\ value >= Int16Min /\ value <= Int16Max
  /\ offset >= 0 /\ offset + 2 <= Len(buf)

\* A write that adds the value to the stored one.
WriteInt16BEAdd(buf, value, offset) ==
  LET sum == ReadInt16BE(buf, offset) + value
  IN  [buf EXCEPT ![offset + 1] = U16(sum)[1], ![offset + 2] = U16(sum)[2]]

WriteInt16BE(buf, value, offset) ==
  [buf EXCEPT ![offset + 1] = U16(value)[1], ![offset + 2] = U16(value)[2]]

(***************************************************************************)
(* patchHheaTable: the scan for the 'hhea' tag in 16-byte strides from     *)
(* offset 12, and the three writes at the offset read from the entry.      *)
(***************************************************************************)
\* The loop of lines 293-300: the first i with the tag, or -1.
RECURSIVE FindHheaEntry(_, _)
FindHheaEntry(buffer, i) ==
  IF ~(i < Len(buffer) - DirectoryEntrySize) THEN -1
  ELSE IF SubSeq(buffer, i + 1, i + 4) = HheaTag THEN i
  ELSE FindHheaEntry(buffer, i + DirectoryEntrySize)

hheaOffsetOf(buffer) ==
  LET i == FindHheaEntry(buffer, DirectoryStart)
  IN  IF i = -1 THEN -1 ELSE ReadUInt32BE(buffer, i + EntryOffsetField)

\* One write of the try block: it happens if no earlier write threw and this
\* one does not throw.
TryWrite(st, value, offset) ==
  IF st.ok /\ CanWriteInt16BE(st.bytes, value, offset)
    THEN [ok |-> TRUE, bytes |-> WriteInt16BE(st.bytes, value, offset)]
    ELSE [ok |-> FALSE, bytes |-> st.bytes]

\* A patcher whose catch returns the copy as far as it was written.
patchHheaTablePartial(buffer, ascent, descent, lineGap) ==
  LET hheaOffset == hheaOffsetOf(buffer)
      w0 == [ok |-> TRUE, bytes |-> buffer]
      w1 == TryWrite(w0, ascent, hheaOffset + HheaAscenderField)
      w2 == TryWrite(w1, descent, hheaOffset + HheaDescenderField)
      w3 == TryWrite(w2, lineGap, hheaOffset + HheaLineGapField)
  IN  IF hheaOffset = -1
        THEN [bytes |-> buffer, warning |-> "patchTargetNotFound"]
      ELSE [bytes |-> w3.bytes, warning |-> IF w3.ok THEN "none" ELSE "patchFailed"]

\* The result: the returned bytes and the warning printed ("none" if none).
patchHheaTable(buffer, ascent, descent, lineGap) ==
  LET hheaOffset == hheaOffsetOf(buffer)
      w0 == [ok |-> TRUE, bytes |-> buffer]   \* patchedBuffer, a copy
      w1 == TryWrite(w0, ascent, hheaOffset + HheaAscenderField)
      w2 == TryWrite(w1, descent, hheaOffset + HheaDescenderField)
      w3 == TryWrite(w2, lineGap, hheaOffset + HheaLineGapField)
  IN  IF hheaOffset = -1
        THEN [bytes |-> buffer, warning |-> "patchTargetNotFound"]
      ELSE IF w3.ok
        THEN [bytes |-> w3.bytes, warning |-> "none"]
        ELSE [bytes |-> buffer, warning |-> "patchFailed"]

(***************************************************************************)
(* The font object and its serialized container.  font.tables is a         *)
(* function whose domain holds the names of the tables the font has        *)
(* ("os2", "hhea"); `other` is the raw content of the remaining table      *)
(* data, which parsing and serialization carry through unchanged.  The     *)
(* container is the SFNT layout: a 12-byte header, one 16-byte directory   *)
(* entry per table (tag, checksum, offset, length) in tag order, then the  *)
(* tables, each padded to four bytes.                                      *)
(***************************************************************************)
Os2FsSelectionField == 62
Os2TypoAscenderField == 68
Os2TypoDescenderField == 70
Os2TypoLineGapField == 72
Os2WinAscentField == 74
Os2WinDescentField == 76
UseTypoMetrics == 128

Pad4(data) == data \o Zeros((4 - (Len(data) % 4)) % 4)

Os2Bytes(os2) ==
  Zeros(Os2FsSelectionField) \o U16(os2.fsSelection) \o Zeros(4)
    \o U16(os2.sTypoAscender) \o U16(os2.sTypoDescender) \o U16(os2.sTypoLineGap)
    \o U16(os2.usWinAscent) \o U16(os2.usWinDescent)

HheaBytes(hhea) ==
  <<0, 1, 0, 0>> \o U16(hhea.ascender) \o U16(hhea.descender) \o U16(hhea.lineGap)
    \o U16(hhea.advanceWidthMax) \o Zeros(22) \o U16(hhea.numberOfHMetrics)

\* The tables of the container in tag order ('OS/2' < 'glyf' < 'hhea').
\* hheaTable is the hhea record the serializer emits.
ContainerTables(font, hheaTable) ==
  (IF "os2" \in DOMAIN font.tables
     THEN <<[tag |-> Os2Tag, data |-> Os2Bytes(font.tables.os2)]>> ELSE <<>>)
  \o <<[tag |-> GlyfTag, data |-> font.other]>>
  \o (IF "hhea" \in DOMAIN font.tables
        THEN <<[tag |-> HheaTag, data |-> HheaBytes(hheaTable)]>> ELSE <<>>)

RECURSIVE TableOffset(_, _)
\* The offset of table k: the end of the directory plus the padded lengths
\* of the tables before it.
TableOffset(tables, k) ==
  IF k = 1 THEN DirectoryStart + DirectoryEntrySize * Len(tables)
  ELSE TableOffset(tables, k - 1) + Len(Pad4(tables[k - 1].data))

RECURSIVE Concat(_)
Concat(ss) == IF ss = <<>> THEN <<>> ELSE Head(ss) \o Concat(Tail(ss))

SfntBytes(tables) ==
  <<0, 1, 0, 0>> \o U16(Len(tables)) \o Zeros(6)
    \o Concat([k \in 1..Len(tables) |->
                 tables[k].tag \o Zeros(4) \o U32(TableOffset(tables, k))
                   \o U32(Len(tables[k].data))])
    \o Concat([k \in 1..Len(tables) |-> Pad4(tables[k].data)])

\* font.toArrayBuffer().  The OS/2 table is written from font.tables.os2.
\* The serializer does not reliably write font.tables.hhea ("opentype.js
\* doesn't properly save hhea modifications"): with hheaSaved it writes the
\* table of the font object, without it the metrics the font was parsed with.
toArrayBuffer(font, hheaSaved) ==
  SfntBytes(ContainerTables(font,
    IF "hhea" \in DOMAIN font.tables
      THEN IF hheaSaved THEN font.tables.hhea
           ELSE [font.tables.hhea EXCEPT !.ascender = font.parsedHhea.ascender,
                                         !.descender = font.parsedHhea.descender,
                                         !.lineGap = font.parsedHhea.lineGap]
      ELSE font.parsedHhea))

\* Reading a written container back (opentype.loadSync of the output): the
\* directory lookup by the declared table count, and the metric fields.
RECURSIVE LookupTable(_, _, _)
LookupTable(buf, tag, k) ==
  IF k >= ReadUInt16BE(buf, 4) THEN -1
  ELSE LET i == DirectoryStart + DirectoryEntrySize * k
       IN  IF SubSeq(buf, i + 1, i + 4) = tag
             THEN ReadUInt32BE(buf, i + EntryOffsetField)
             ELSE LookupTable(buf, tag, k + 1)

HasTable(buf, tag) == LookupTable(buf, tag, 0) # -1

ReadHhea(buf) ==
  LET o == LookupTable(buf, HheaTag, 0)
  IN  [ascender  |-> ReadInt16BE(buf, o + HheaAscenderField),
       descender |-> ReadInt16BE(buf, o + HheaDescenderField),
       lineGap   |-> ReadInt16BE(buf, o + HheaLineGapField)]

ReadOs2(buf) ==
  LET o == LookupTable(buf, Os2Tag, 0)
  IN  [sTypoAscender  |-> ReadInt16BE(buf, o + Os2TypoAscenderField),
       sTypoDescender |-> ReadInt16BE(buf, o + Os2TypoDescenderField),
       sTypoLineGap   |-> ReadInt16BE(buf, o + Os2TypoLineGapField),
       usWinAscent    |-> ReadUInt16BE(buf, o + Os2WinAscentField),
       usWinDescent   |-> ReadUInt16BE(buf, o + Os2WinDescentField),
       fsSelection    |-> ReadUInt16BE(buf, o + Os2FsSelectionField)]

(***************************************************************************)
(* The metric calculation of modifyFont (lines 137-140).  The options hold *)
(* the values in hundredths, as typed with two decimals.                   *)
(***************************************************************************)
PercentOf(unitsPerEm, h) == DMul(DDiv(ParseFloat(h), 100), unitsPerEm)

newAscent(unitsPerEm, options) == MathRound(PercentOf(unitsPerEm, options.ascent))

newDescentNotNegated(unitsPerEm, options) ==
  MathRound(PercentOf(unitsPerEm, options.descent))

newDescent(unitsPerEm, options) == -MathRound(PercentOf(unitsPerEm, options.descent))

newLineGap(options) == MathRound(ParseFloat(options.lineGap))

computeMetrics(unitsPerEm, options) ==
  [ascent  |-> newAscent(unitsPerEm, options),
   descent |-> newDescent(unitsPerEm, options),
   lineGap |-> newLineGap(options)]

Abs(n) == IF n < 0 THEN -n ELSE n

\* fsSelection | 0x80
SetUseTypoMetrics(fs) ==
  IF (fs \div UseTypoMetrics) % 2 = 1 THEN fs ELSE fs + UseTypoMetrics

\* Lines 151-160: the edit of font.tables.os2.
EditedOs2(os2, m) ==
  [os2 EXCEPT !.sTypoAscender = m.ascent,
              !.sTypoDescender = m.descent,
              !.sTypoLineGap = m.lineGap,
              !.usWinAscent = Abs(m.ascent),
              !.usWinDescent = Abs(m.descent),
              !.fsSelection = SetUseTypoMetrics(os2.fsSelection)]

\* Lines 176-194: the new hhea table; the other fields are copied.
RecreatedHhea(originalHhea, m) ==
  [ascender         |-> m.ascent,
   descender        |-> m.descent,
   lineGap          |-> m.lineGap,
   advanceWidthMax  |-> originalHhea.advanceWidthMax,
   numberOfHMetrics |-> originalHhea.numberOfHMetrics]

(***************************************************************************)
(* One run of the editor.  The inputs of the run are the command line      *)
(* (opts), the input path (input) and what the input file holds            *)
(* (input.font: the font object that parsing it yields).  The --verbose    *)
(* option only adds console output and a read-back of the written file     *)
(* whose failure is swallowed (lines 219-229); it is not drawn.            *)
(***************************************************************************)
OtherTableLen == 20

\* Table data that holds the bytes 'hhea' followed, eight bytes on, by the
\* four bytes of `offset`: the shape of a directory entry.
FakeEntry(offset) == HheaTag \o Zeros(4) \o U32(offset) \o Zeros(OtherTableLen - 12)

FakeOffsets == {0, 16777216}

OtherTableData == {Zeros(OtherTableLen)} \cup {FakeEntry(o) : o \in FakeOffsets}

ParsedOs2 ==
  [sTypoAscender |-> 800, sTypoDescender |-> -200, sTypoLineGap |-> 90,
   usWinAscent |-> 950, usWinDescent |-> 250, fsSelection |-> 64]

ParsedHhea ==
  [ascender |-> 950, descender |-> -250, lineGap |-> 10,
   advanceWidthMax |-> 1200, numberOfHMetrics |-> 3]

UnitsPerEmValues == {0, 1000, 2048}

InputFonts ==
  {[unitsPerEm |-> u,
    tables     |-> [t \in ts |-> IF t = "os2" THEN ParsedOs2 ELSE ParsedHhea],
    other      |-> o,
    parsedHhea |-> ParsedHhea] :
     u \in UnitsPerEmValues, ts \in SUBSET {"os2", "hhea"}, o \in OtherTableData}

\* <<ascent, descent, lineGap>> in hundredths.
MetricOptions ==
  {<<9000, 2200, 0>>, <<8000, 2000, 1000>>, <<9005, 2200, 250>>,
   <<8235, 2200, 0>>, <<400000, 2200, 0>>, <<9000, 400000, 0>>,
   <<9000, 2200, 4000000>>, <<9000, -1000, 0>>}

Options ==
  {[list |-> l, output |-> o, ascent |-> m[1], descent |-> m[2], lineGap |-> m[3]] :
     l \in BOOLEAN, o \in {"", ".ttf", ".woff2"}, m \in MetricOptions}

Inputs ==
  {[exists |-> e, ext |-> x, font |-> f] :
     e \in BOOLEAN, x \in {".woff2", ".ttf"}, f \in InputFonts}

NoFont == [unitsPerEm |-> 0, tables |-> << >>, other |-> << >>, parsedHhea |-> ParsedHhea]
NoFile == [exists |-> FALSE, bytes |-> << >>]

VARIABLES
  opts,           \* program.opts()
  input,          \* the input path and the file behind it
  pc,             \* the position of the run
  exitCode,       \* the exit code of the process (0 unless process.exit(1))
  font,           \* the font object
  metrics,        \* newAscent, newDescent, newLineGap
  outputBuffer,   \* the serialized container
  patchedBuffer,  \* what patchHheaTable returned
  outFile,        \* the file at outputPath
  log,            \* the warnings and errors printed
  trace,          \* the steps taken, in order
  harness         \* the test harness: its position, counters and files

editorVars == <<opts, input, pc, exitCode, font, metrics, outputBuffer, patchedBuffer,
                outFile, log, trace>>

vars == <<opts, input, pc, exitCode, font, metrics, outputBuffer, patchedBuffer,
          outFile, log, trace, harness>>

\* The harness before it is started.
NoHarness ==
  [i |-> 1, at |-> "idle", inputs |-> {}, files |-> {}, done |-> {},
   passedTests |-> 0, totalTests |-> 0, knownIssues |-> 0, exitCode |-> 0]

isWoff2 == input.ext = ".woff2"

\* generateOutputPath (lines 45-52): the extension of outputPath.
outputExt == IF opts.output # "" THEN opts.output
             ELSE IF input.ext = ".woff2" THEN ".ttf" ELSE input.ext

Init ==
  /\ opts \in Options
  /\ input \in Inputs
  /\ pc = "validate"
  /\ exitCode = 0
  /\ font = NoFont
  /\ metrics = [ascent |-> 0, descent |-> 0, lineGap |-> 0]
  /\ outputBuffer = << >>
  /\ patchedBuffer = << >>
  /\ outFile = NoFile
  /\ log = {}
  /\ trace = << >>
  /\ harness = NoHarness

FailExitZero(step, message) ==
  /\ pc' = "exit"
  /\ exitCode' = 0
  /\ log' = log \cup {message}
  /\ trace' = Append(trace, step)

\* The catch of lines 243-249 (and the exit of line 41): print, exit 1.
Fail(step, message) ==
  /\ pc' = "exit"
  /\ exitCode' = 1
  /\ log' = log \cup {message}
  /\ trace' = Append(trace, step)

Step(step, next) ==
  /\ pc' = next
  /\ trace' = Append(trace, step)

\* Lines 39-42 and 60-62.
Validate ==
  /\ pc = "validate"
  /\ IF ~input.exists
       THEN Fail("validate", "inputNotFound")
       ELSE Step("validate", IF isWoff2 THEN "open" ELSE "read") /\ UNCHANGED <<exitCode, log>>
  /\ UNCHANGED <<harness, opts, input, font, metrics, outputBuffer, patchedBuffer, outFile>>

\* Line 91-93: `if (options.list) return` on the WOFF2 path.
AfterOpen == IF opts.list THEN "exit" ELSE "decompress"

\* Line 132-134: `if (options.list) return`.
AfterReportAlways == "compute"
AfterReport == IF opts.list THEN "exit" ELSE "compute"

\* Lines 64-93: fontkit.open, the report, and the return of list mode.
OpenWoff2 ==
  /\ pc = "open"
  /\ \E opened \in BOOLEAN :
       IF ~opened
         THEN Fail("open", "processingError")
         ELSE Step("open", AfterOpen)
              /\ UNCHANGED <<exitCode, log>>
  /\ UNCHANGED <<harness, opts, input, font, metrics, outputBuffer, patchedBuffer, outFile>>

\* Lines 97-98 and 108-110: read the file and decompress it.
Decompress ==
  /\ pc = "decompress"
  /\ \E decompressed \in BOOLEAN :
       IF ~decompressed
         THEN Fail("decompress", "decompressionFailed")
         ELSE Step("decompress", "parseWoff2") /\ UNCHANGED <<exitCode, log>>
  /\ UNCHANGED <<harness, opts, input, font, metrics, outputBuffer, patchedBuffer, outFile>>

\* Lines 106 and 108-110: parse the decompressed container; a throw is
\* caught by the same catch as a throw of decompress.
ParseWoff2 ==
  /\ pc = "parseWoff2"
  /\ \E parsed \in BOOLEAN :
       IF ~parsed
         THEN Fail("parse", "decompressionFailed") /\ UNCHANGED font
         ELSE /\ Step("parse", "report")
              /\ font' = input.font
              /\ UNCHANGED <<exitCode, log>>
  /\ UNCHANGED <<harness, opts, input, metrics, outputBuffer, patchedBuffer, outFile>>

\* Lines 113-114: read and parse a TTF/OTF/WOFF file.
ReadParse ==
  /\ pc = "read"
  /\ \E parsed \in BOOLEAN :
       IF ~parsed
         THEN Fail("parse", "processingError") /\ UNCHANGED font
         ELSE /\ Step("parse", "report")
              /\ font' = input.font
              /\ UNCHANGED <<exitCode, log>>
  /\ UNCHANGED <<harness, opts, input, metrics, outputBuffer, patchedBuffer, outFile>>

\* Lines 117-134: the report of list mode (font.names.fontFamily.en throws
\* for a font without a family name) and the return of list mode.
Report ==
  /\ pc = "report"
  /\ \E reported \in BOOLEAN :
       IF opts.list /\ ~reported
         THEN Fail("report", "processingError")
         ELSE Step("report", AfterReport)
              /\ UNCHANGED <<exitCode, log>>
  /\ UNCHANGED <<harness, opts, input, font, metrics, outputBuffer, patchedBuffer, outFile>>

\* Lines 137-140.
Compute ==
  /\ pc = "compute"
  /\ metrics' = computeMetrics(font.unitsPerEm, opts)
  /\ Step("compute", "editOs2")
  /\ UNCHANGED <<harness, opts, input, exitCode, font, outputBuffer, patchedBuffer, outFile, log>>

\* Lines 150-167.
EditOs2 ==
  /\ pc = "editOs2"
  /\ IF "os2" \in DOMAIN font.tables
       THEN /\ font' = [font EXCEPT !.tables.os2 = EditedOs2(font.tables.os2, metrics)]
            /\ UNCHANGED log
       ELSE /\ log' = log \cup {"noOs2Table"}
            /\ UNCHANGED font
  /\ Step("editOs2", "editHhea")
  /\ UNCHANGED <<harness, opts, input, exitCode, metrics, outputBuffer, patchedBuffer, outFile>>

\* Lines 170-204.
EditHhea ==
  /\ pc = "editHhea"
  /\ IF "hhea" \in DOMAIN font.tables
       THEN /\ font' = [font EXCEPT !.tables.hhea = RecreatedHhea(font.tables.hhea, metrics)]
            /\ UNCHANGED log
       ELSE /\ log' = log \cup {"noHheaTable"}
            /\ UNCHANGED font
  /\ Step("editHhea", "serialize")
  /\ UNCHANGED <<harness, opts, input, exitCode, metrics, outputBuffer, patchedBuffer, outFile>>

\* What follows a successful serialization.
AfterSerializeSkipsPatch ==
  IF {"os2", "hhea"} \subseteq DOMAIN font.tables THEN "patch" ELSE "write"

\* Lines 210-213: patchHheaTable is called on the serialized bytes whatever
\* tables the font has.
AfterSerialize == "patch"

\* Lines 210 and 230-232.
Serialize ==
  /\ pc = "serialize"
  /\ \E serialized \in BOOLEAN, hheaSaved \in BOOLEAN :
       IF ~serialized
         THEN Fail("serialize", "saveFailed") /\ UNCHANGED outputBuffer
         ELSE /\ outputBuffer' = toArrayBuffer(font, hheaSaved)
              /\ Step("serialize", AfterSerialize)
              /\ UNCHANGED <<exitCode, log>>
  /\ UNCHANGED <<harness, opts, input, font, metrics, patchedBuffer, outFile>>

\* Line 213.
Patch ==
  /\ pc = "patch"
  /\ LET r == patchHheaTable(outputBuffer, metrics.ascent, metrics.descent, metrics.lineGap)
     IN  /\ patchedBuffer' = r.bytes
         /\ log' = IF r.warning = "none" THEN log ELSE log \cup {r.warning}
  /\ Step("patch", "write")
  /\ UNCHANGED <<harness, opts, input, exitCode, font, metrics, outputBuffer, outFile>>

\* A WOFF2 compression of the container (the 'wOF2' signature, then the
\* compressed tables): what the file would hold had the editor compressed.
Woff2Compress(bytes) == <<119, 79, 70, 50>> \o bytes
writtenBytesCompressed(ext, bytes) ==
  IF ext = ".woff2" THEN Woff2Compress(bytes) ELSE bytes

\* What fs.writeFileSync(outputPath, patchedBuffer) puts in the file at
\* outputPath, whose extension is ext.
writtenBytes(ext, bytes) == bytes

\* Lines 215-216 and 230-232.
Write ==
  /\ pc = "write"
  /\ \E written \in BOOLEAN :
       IF ~written
         THEN Fail("write", "saveFailed") /\ UNCHANGED outFile
         ELSE /\ outFile' = [exists |-> TRUE, bytes |-> writtenBytes(outputExt, patchedBuffer)]
              /\ Step("write", "finish")
              /\ log' = log \cup {"saved"}
              /\ UNCHANGED exitCode
  /\ UNCHANGED <<harness, opts, input, font, metrics, outputBuffer, patchedBuffer>>

\* Lines 234-241: the format note and the CSS example; the run returns.
Finish ==
  /\ pc = "finish"
  /\ Step("finish", "exit")
  /\ UNCHANGED <<harness, opts, input, exitCode, font, metrics, outputBuffer, patchedBuffer,
                 outFile, log>>

Next ==
  \/ Validate \/ OpenWoff2 \/ Decompress \/ ParseWoff2 \/ ReadParse \/ Report
  \/ Compute \/ EditOs2 \/ EditHhea \/ Serialize \/ Patch \/ Write \/ Finish

Spec == Init /\ [][Next]_vars

(***************************************************************************)
(* The metric calculation on its own: the Compute step from every          *)
(* unitsPerEm of CalcUnitsPerEm and every option value of the grid, one    *)
(* option varied at a time.                                                *)
(***************************************************************************)
MaxPercentStep == 2000
PercentGrid == {5 * k : k \in (-MaxPercentStep)..MaxPercentStep}
CalcUnitsPerEm == {200, 1000, 2048}

CalcOptions ==
  {[list |-> FALSE, output |-> "", ascent |-> a, descent |-> 2200, lineGap |-> 0] :
     a \in PercentGrid}
  \cup {[list |-> FALSE, output |-> "", ascent |-> 9000, descent |-> d, lineGap |-> 0] :
     d \in PercentGrid}
  \cup {[list |-> FALSE, output |-> "", ascent |-> 9000, descent |-> 2200, lineGap |-> l] :
     l \in PercentGrid}

CalcInit ==
  /\ opts \in CalcOptions
  /\ input = [exists |-> TRUE, ext |-> ".ttf", font |-> NoFont]
  /\ pc = "compute"
  /\ exitCode = 0
  /\ font \in {[NoFont EXCEPT !.unitsPerEm = u] : u \in CalcUnitsPerEm}
  /\ metrics = [ascent |-> 0, descent |-> 0, lineGap |-> 0]
  /\ outputBuffer = << >>
  /\ patchedBuffer = << >>
  /\ outFile = NoFile
  /\ log = {}
  /\ trace = << >>
  /\ harness = NoHarness

CalcNext == Compute

CalcSpec == CalcInit /\ [][CalcNext]_vars

(***************************************************************************)
(* The binary patcher on its own: the Patch step, and a second             *)
(* application to its own result, from buffers of PatchBufferLen bytes     *)
(* that hold the tag 'hhea' in one of the 16-byte slots (or in none) and   *)
(* any offset up to MaxPatchOffset in that slot's offset field.            *)
(***************************************************************************)
PatchBufferLen == 64
MaxPatchOffset == 70
MaxPatchSlot == 2

PatchBuffer(slot, offset) ==
  [k \in 1..PatchBufferLen |->
     LET o == (k - 1) - (DirectoryStart + DirectoryEntrySize * slot)
     IN  IF slot >= 0 /\ o >= 0 /\ o < 4 THEN HheaTag[o + 1]
         ELSE IF slot >= 0 /\ o >= EntryOffsetField /\ o < EntryOffsetField + 4
           THEN U32(offset)[o - EntryOffsetField + 1]
         ELSE 1]

PatchBuffers ==
  {PatchBuffer(s, o) : s \in (-1)..MaxPatchSlot, o \in 0..MaxPatchOffset}

\* 26728 and 25953 are the 16-bit values whose bytes spell 'hh' and 'ea'.
PatchMetrics ==
  {[ascent |-> m[1], descent |-> m[2], lineGap |-> m[3]] :
     m \in {<<0, 0, 0>>, <<900, -220, 0>>, <<0, 30, 0>>, <<40000, 0, 0>>,
            <<26728, 25953, 0>>}}

PatchInit ==
  /\ opts \in {o \in Options : ~o.list /\ o.output = "" /\ o.ascent = 9000 /\ o.descent = 2200 /\ o.lineGap = 0}
  /\ input = [exists |-> TRUE, ext |-> ".ttf", font |-> NoFont]
  /\ pc = "patch"
  /\ exitCode = 0
  /\ font = NoFont
  /\ metrics \in PatchMetrics
  /\ outputBuffer \in PatchBuffers
  /\ patchedBuffer = << >>
  /\ outFile = NoFile
  /\ log = {}
  /\ trace = << >>
  /\ harness = NoHarness

\* patchHheaTable applied to the bytes it returned, with the same metrics.
Repatch ==
  /\ pc = "write"
  /\ LET r == patchHheaTable(patchedBuffer, metrics.ascent, metrics.descent, metrics.lineGap)
     IN  patchedBuffer' = r.bytes
  /\ Step("repatch", "repatched")
  /\ UNCHANGED <<harness, opts, input, exitCode, font, metrics, outputBuffer, outFile, log>>

PatchNext == Patch \/ Repatch

PatchSpec == PatchInit /\ [][PatchNext]_vars

(***************************************************************************)
(* The test harness (test-formats.js): a loop over testFonts that runs the *)
(* editor as a child process three times per font.  A child process is     *)
(* modelled by its outcome: whether execSync threw, and for the modifying  *)
(* run whether the output file was written.  harness.files is the set of   *)
(* output files on disk, harness.inputs the indices of the test fonts      *)
(* whose file exists, harness.done the output files of the iterations that *)
(* have ended.                                                             *)
(***************************************************************************)
\* Lines 12-43.
testFonts ==
  << [dir |-> "", base |-> "trade-gothic-next-thin", ext |-> ".woff2", expected |-> "PASS"],
     [dir |-> "test-fonts/", base |-> "Roboto-Regular", ext |-> ".ttf", expected |-> "KNOWN_ISSUE"],
     [dir |-> "test-fonts/", base |-> "SourceSansPro-Regular", ext |-> ".otf", expected |-> "KNOWN_ISSUE"],
     [dir |-> "test-fonts/", base |-> "OpenSans-Regular", ext |-> ".woff", expected |-> "KNOWN_ISSUE"],
     [dir |-> "test-fonts/", base |-> "Roboto-Regular", ext |-> ".woff2", expected |-> "KNOWN_ISSUE"] >>

\* Lines 45-49 and 82: the options of the modifying run.
testMetrics == [list |-> FALSE, output |-> ".ttf", ascent |-> 8500, descent |-> 2000, lineGap |-> 0]

\* Line 68: `test-output-${path.basename(file, path.extname(file))}.ttf`.
outputFileOf(testFont) == <<"test-output-", testFont.base, ".ttf">>

outputFile == outputFileOf(testFonts[harness.i])

OutputFiles == {outputFileOf(testFonts[k]) : k \in 1..Len(testFonts)}

\* `if (fs.existsSync(outputFile)) fs.unlinkSync(outputFile)` (lines 103,
\* 111 and 131-133).
CleanUp(files, name) == files \ {name}

CatchCleanUpUnlessKnownIssue(files, name, expected) ==
  IF expected = "KNOWN_ISSUE" THEN files ELSE files \ {name}

\* Lines 118-133: the clean-up of the outer catch comes after both branches
\* of the test on testFont.expected.
CatchCleanUp(files, name, expected) == CleanUp(files, name)

HarnessInit ==
  /\ opts = testMetrics
  /\ input = [exists |-> TRUE, ext |-> ".ttf", font |-> NoFont]
  /\ pc = "exit"
  /\ exitCode = 0
  /\ font = NoFont
  /\ metrics = [ascent |-> 0, descent |-> 0, lineGap |-> 0]
  /\ outputBuffer = << >>
  /\ patchedBuffer = << >>
  /\ outFile = NoFile
  /\ log = {}
  /\ trace = << >>
  /\ \E inputs \in SUBSET (1..Len(testFonts)), files \in SUBSET OutputFiles :
       harness = [NoHarness EXCEPT !.at = "begin", !.inputs = inputs, !.files = files]

\* The end of an iteration of the loop of lines 58-135 that was not skipped.
EndIteration(h) ==
  [h EXCEPT !.i = h.i + 1, !.at = "begin", !.done = h.done \cup {outputFile}]

\* Lines 58-68: the next font; it is skipped when its file is missing.
HarnessBegin ==
  /\ harness.at = "begin"
  /\ harness.i <= Len(testFonts)
  /\ harness' = IF harness.i \notin harness.inputs
                  THEN [harness EXCEPT !.i = harness.i + 1]
                  ELSE [harness EXCEPT !.totalTests = harness.totalTests + 1, !.at = "list"]
  /\ UNCHANGED editorVars

\* Lines 73-77: the list run on the input; a throw goes to the outer catch.
HarnessList ==
  /\ harness.at = "list"
  /\ \E threw \in BOOLEAN :
       harness' = [harness EXCEPT !.at = IF threw THEN "catch" ELSE "modify"]
  /\ UNCHANGED editorVars

\* Lines 81-87: the modifying run with -o outputFile.
HarnessModify ==
  /\ harness.at = "modify"
  /\ \E threw \in BOOLEAN, created \in BOOLEAN :
       harness' = [harness EXCEPT
                     !.files = IF created THEN harness.files \cup {outputFile}
                               ELSE harness.files,
                     !.at = IF threw THEN "catch" ELSE "check"]
  /\ UNCHANGED editorVars

\* Lines 90-92 and 113-115: was the output file created?
HarnessCheck ==
  /\ harness.at = "check"
  /\ harness' = IF outputFile \in harness.files
                  THEN [harness EXCEPT !.at = "verify"]
                  ELSE EndIteration(harness)
  /\ UNCHANGED editorVars

\* Lines 95-112: the list run on the output file, then the clean-up.
HarnessVerify ==
  /\ harness.at = "verify"
  /\ \E threw \in BOOLEAN :
       harness' =
         IF threw
           THEN EndIteration([harness EXCEPT !.files = CleanUp(harness.files, outputFile)])
           ELSE EndIteration([harness EXCEPT
                                !.files = CleanUp(harness.files, outputFile),
                                !.passedTests = harness.passedTests + 1])
  /\ UNCHANGED editorVars

\* Lines 117-134: the outer catch.
HarnessCatch ==
  /\ harness.at = "catch"
  /\ LET expected == testFonts[harness.i].expected
     IN  harness' =
           EndIteration([harness EXCEPT
             !.knownIssues = IF expected = "KNOWN_ISSUE" THEN harness.knownIssues + 1
                             ELSE harness.knownIssues,
             !.files = CatchCleanUp(harness.files, outputFile, expected)])
  /\ UNCHANGED editorVars

\* Lines 137-149: the results and the exit code.
HarnessResults ==
  /\ harness.at = "begin"
  /\ harness.i > Len(testFonts)
  /\ harness' = [harness EXCEPT !.at = "exit",
                                !.exitCode = IF harness.passedTests > 0 THEN 0 ELSE 1]
  /\ UNCHANGED editorVars

HarnessNext ==
  \/ HarnessBegin \/ HarnessList \/ HarnessModify \/ HarnessCheck
  \/ HarnessVerify \/ HarnessCatch \/ HarnessResults

HarnessSpec == HarnessInit /\ [][HarnessNext]_vars

(***************************************************************************)
(* The claims.                                                             *)
(***************************************************************************)
Did(step) == \E i \in 1..Len(trace) : trace[i] = step

\* Every occurrence of step b in the trace has a step a before it.
Before(a, b) ==
  \A j \in 1..Len(trace) : trace[j] = b => \E i \in 1..(j - 1) : trace[i] = a

InInt16(v) == v >= Int16Min /\ v <= Int16Max

MetricOutOfRange ==
  ~(InInt16(metrics.ascent) /\ InInt16(metrics.descent) /\ InInt16(metrics.lineGap))

HasBothTables == {"os2", "hhea"} \subseteq DOMAIN input.font.tables

ErrorMessages == {"inputNotFound", "processingError", "decompressionFailed", "saveFailed"}

\* C1: after a successful edit run (exit 0, not list mode) on a font with
\* both tables, the hhea ascender, descender and line gap read from the
\* written file equal the OS/2 typographic ascender, descender and line gap
\* read from it, for every unitsPerEm and every option value.
C1_HheaEqualsOs2InOutput ==
  (pc = "exit" /\ exitCode = 0 /\ ~opts.list /\ HasBothTables)
    => /\ outFile.exists
       /\ ReadHhea(outFile.bytes).ascender = ReadOs2(outFile.bytes).sTypoAscender
       /\ ReadHhea(outFile.bytes).descender = ReadOs2(outFile.bytes).sTypoDescender
       /\ ReadHhea(outFile.bytes).lineGap = ReadOs2(outFile.bytes).sTypoLineGap

\* C2: once a computed metric lies outside [-32768, 32767] the run is fatal
\* before any mutation: the font object is as parsed, no output file is
\* written, and the run exits with code 1.
C2_OutOfRangeIsFatal ==
  (Did("compute") /\ MetricOutOfRange)
    => /\ font = input.font
       /\ ~outFile.exists
       /\ (pc = "exit" => exitCode = 1)

\* C3: in list mode, on the WOFF2 path and on the TTF/OTF/WOFF path, the
\* run never reaches the compute, edit, serialize, patch or write steps: no
\* file is created and the font object is as parsed.
C3_ListModeIsReadOnly ==
  opts.list
    => /\ outFile = NoFile
       /\ font \in {NoFont, input.font}
       /\ outputBuffer = << >> /\ patchedBuffer = << >>
       /\ \A i \in 1..Len(trace) :
            trace[i] \notin {"decompress", "compute", "editOs2", "editHhea",
                             "serialize", "patch", "write", "finish"}

C3_Witness ==
  opts.list /\ pc = "exit" /\ exitCode = 0 /\ Did("report") /\ input.font.tables # << >>

\* The six patched bytes lie at or beyond the end of the offset field of
\* the slot the scan matched.
PatchedFieldsClearOfEntry(buffer) ==
  LET i == FindHheaEntry(buffer, DirectoryStart)
  IN  i # -1 /\ hheaOffsetOf(buffer) + HheaAscenderField >= i + EntryOffsetField + 4

PatchOf(buffer) ==
  patchHheaTable(buffer, metrics.ascent, metrics.descent, metrics.lineGap)

\* C4 (as claimed): for every byte buffer and every metric triple, patching
\* the patched bytes again gives the bytes of patching once.
C4_PatchIdempotentOnEveryBuffer ==
  pc = "repatched" => patchedBuffer = PatchOf(outputBuffer).bytes

\* C4 (amended): patching twice gives the bytes of patching once whenever
\* the tag is not found, a write fails, or the six patched bytes lie at or
\* beyond the end of the matched entry's offset field.
C4_PatchIdempotentClearOfEntry ==
  (pc = "repatched"
     /\ (PatchOf(outputBuffer).warning # "none" \/ PatchedFieldsClearOfEntry(outputBuffer)))
    => patchedBuffer = PatchOf(outputBuffer).bytes

C4_Witness ==
  /\ pc = "repatched"
  /\ PatchOf(outputBuffer).warning = "none"
  /\ PatchedFieldsClearOfEntry(outputBuffer)
  /\ patchedBuffer # outputBuffer

\* C5: when the directory of the serialized container has no 'hhea' entry,
\* whatever the table data holds, the patcher returns its input unchanged
\* and warns that the patch target was not found, and the run completes
\* with the OS/2 table edited.
C5_DirectoryMissLeavesBytes ==
  (Did("patch") /\ ~HasTable(outputBuffer, HheaTag))
    => /\ patchedBuffer = outputBuffer
       /\ "patchTargetNotFound" \in log
       /\ (pc = "exit" /\ "saveFailed" \notin log)
            => /\ exitCode = 0 /\ outFile.exists
               /\ HasTable(outputBuffer, Os2Tag)
                    => ReadOs2(outFile.bytes).sTypoAscender
                         = ReadInt16BE(U16(metrics.ascent), 0)

\* C6 (as claimed): for every descent percentage, positive, zero or
\* negative, the computed descent is at most 0.
C6_DescentNeverPositive ==
  Did("compute") => metrics.descent <= 0

\* C6 (amended): for every descent percentage that is positive or zero the
\* computed descent is at most 0, and a percentage of 0 gives descent 0.
C6_DescentSignContract ==
  (Did("compute") /\ opts.descent >= 0)
    => /\ metrics.descent <= 0
       /\ (opts.descent = 0 => metrics.descent = 0)

C6_Witness ==
  Did("compute") /\ opts.descent > 0 /\ metrics.descent < 0

\* floor(n / d + 1/2): round to nearest, a fraction of .5 going up.
RoundHalfUp(n, d) == (2 * n + d) \div (2 * d)

\* C7: the computed metrics are round(unitsPerEm * ascentPercent / 100),
\* -round(unitsPerEm * descentPercent / 100) and round(lineGapUnits), with
\* rounding to nearest and a fraction of .5 rounded up.
C7_RoundsToNearestHalfUp ==
  Did("compute")
    => /\ metrics.ascent = RoundHalfUp(font.unitsPerEm * opts.ascent, 10000)
       /\ metrics.descent = -RoundHalfUp(font.unitsPerEm * opts.descent, 10000)
       /\ metrics.lineGap = RoundHalfUp(opts.lineGap, 100)

\* C8: a font whose unitsPerEm is zero is a fatal input error: the run
\* exits with code 1 and never edits a metrics table or writes a file.
C8_ZeroUnitsPerEmIsFatal ==
  (~opts.list /\ Did("report") /\ input.font.unitsPerEm = 0)
    => /\ font = input.font
       /\ ~outFile.exists
       /\ (pc = "exit" => exitCode = 1)

\* C9: the written bytes are exactly the bytes the patcher returned for the
\* serialized uncompressed container, whatever the extension of the output
\* path, and a WOFF2 input is decompressed before any edit.
C9_NeverCompresses ==
  /\ outFile.exists
       => /\ outFile.bytes = patchedBuffer
          /\ patchedBuffer = PatchOf(outputBuffer).bytes
          /\ SubSeq(outFile.bytes, 1, 4) = <<0, 1, 0, 0>>
  /\ isWoff2 => (Before("decompress", "editOs2") /\ Before("decompress", "editHhea"))

C9_Witness ==
  outFile.exists /\ isWoff2 /\ outputExt = ".woff2" /\ Did("editOs2")

\* C10: a run ends with exit code 0 exactly when it completed a list-only
\* report or wrote the output file, and with 1 when the input path does not
\* exist or a step failed; the exit for a missing input happens before any
\* file is read or written.
C10_ExitCodeContract ==
  pc = "exit"
    => /\ exitCode \in {0, 1}
       /\ exitCode = 0 <=> ((opts.list /\ log \cap ErrorMessages = {}) \/ outFile.exists)
       /\ (~input.exists \/ log \cap ErrorMessages # {}) => exitCode = 1
       /\ ~input.exists
            => trace = <<"validate">> /\ outFile = NoFile /\ font = NoFont

C10_Witness ==
  pc = "exit" /\ exitCode = 1 /\ "saveFailed" \in log /\ Did("patch")

\* The step whose failure ended the run ("" while no step has failed).
FailedStep ==
  IF pc = "exit" /\ exitCode = 1 /\ Len(trace) > 0 THEN trace[Len(trace)] ELSE ""

\* C11: the run reports 'WOFF2 decompression failed' exactly when the
\* codec's decompress call failed; the failure of any other step, such as
\* the parse of the decompressed container, is never reported as a
\* decompression failure.
C11_TranscodeFailedIffDecompressFailed ==
  ("decompressionFailed" \in log) <=> (FailedStep = "decompress")

\* The end of the directory a container declares: numTables records of
\* DirectoryEntrySize bytes from DirectoryStart.
DeclaredDirectoryEnd(buffer) ==
  DirectoryStart + DirectoryEntrySize * ReadUInt16BE(buffer, 4)

\* C12: the scan of the patcher examines only the directory entries the
\* table count declares, so the record it takes for the 'hhea' entry, if
\* any, lies inside the declared directory and inside the buffer; the tag
\* occurring in table data is never taken for an entry.
C12_ScanStaysInDeclaredDirectory ==
  Did("patch") =>
    LET i == FindHheaEntry(outputBuffer, DirectoryStart)
    IN  i # -1 => /\ i + DirectoryEntrySize <= Len(outputBuffer)
                  /\ i + DirectoryEntrySize <= DeclaredDirectoryEnd(outputBuffer)

\* The steps of a run from the first edit on, in the order of the code.
EditPipeline == <<"editOs2", "editHhea", "serialize", "patch", "write", "finish">>

\* The steps the run has taken from the first edit on.
StepsFromEdit ==
  LET k == CHOOSE i \in 1..Len(trace) : trace[i] = "editOs2"
  IN  SubSeq(trace, k, Len(trace))

\* C13: in every run that reaches the edit step the steps are edit,
\* serialize, patch, write in that order; the patcher is called once, on
\* the serialized bytes, after the serialization and before the write,
\* whatever tables the font has.
C13_EditSerializePatchWrite ==
  Did("editOs2") =>
    /\ Len(StepsFromEdit) <= Len(EditPipeline)
    /\ \A j \in 1..Len(StepsFromEdit) : StepsFromEdit[j] = EditPipeline[j]
    /\ (Did("serialize") /\ pc # "exit") => Did("patch") \/ pc = "patch"
    /\ Did("patch") => patchedBuffer = PatchOf(outputBuffer).bytes
    /\ outFile.exists => outFile.bytes = PatchOf(outputBuffer).bytes

C13_Witness ==
  /\ Did("write") /\ outFile.exists
  /\ DOMAIN input.font.tables = {}
  /\ "patchTargetNotFound" \in log

\* C14: the harness handles the fonts one after another, and at the end of
\* the iteration of every font that was not skipped (passed, modified font
\* unreadable, output not created, a command failed, known issue) that
\* font's output file does not exist: an output file of an ended iteration
\* is on disk only while a later iteration of a font with the same output
\* name is running.
C14_OutputFileGoneAfterIteration ==
  \A name \in harness.done \cap harness.files :
    /\ harness.at \notin {"begin", "exit"}
    /\ name = outputFile

C14_Witness ==
  /\ harness.at = "exit"
  /\ harness.passedTests > 0 /\ harness.knownIssues > 0
  /\ harness.totalTests - harness.passedTests - harness.knownIssues > 0
  /\ harness.done = OutputFiles

PatchWarnings == {"patchTargetNotFound", "patchFailed"}

\* C15: the patcher returns bytes of the length of its input that differ
\* from it at most in the six bytes at offsets +4 to +9 of the table offset
\* it read, which then hold ascent, descent and lineGap as big-endian
\* 16-bit integers; when a write fails, or the tag is not found, the
\* returned bytes equal the input in full; the caller's buffer is not
\* modified.
C15_PatchTouchesOnlyHheaFields ==
  /\ outputBuffer \in PatchBuffers
  /\ pc = "write" =>
       LET hheaOffset == hheaOffsetOf(outputBuffer)
       IN  /\ Len(patchedBuffer) = Len(outputBuffer)
           /\ \A k \in 1..Len(outputBuffer) :
                patchedBuffer[k] # outputBuffer[k]
                  => /\ hheaOffset # -1
                     /\ k - 1 >= hheaOffset + HheaAscenderField
                     /\ k - 1 < hheaOffset + HheaLineGapField + 2
           /\ log \cap PatchWarnings # {} => patchedBuffer = outputBuffer
           /\ log \cap PatchWarnings = {}
                => /\ ReadInt16BE(patchedBuffer, hheaOffset + HheaAscenderField) = metrics.ascent
                   /\ ReadInt16BE(patchedBuffer, hheaOffset + HheaDescenderField) = metrics.descent
                   /\ ReadInt16BE(patchedBuffer, hheaOffset + HheaLineGapField) = metrics.lineGap

C15_Witness ==
  /\ pc = "write"
  /\ log = {}
  /\ patchedBuffer # outputBuffer
  /\ ReadInt16BE(patchedBuffer, hheaOffsetOf(outputBuffer) + HheaDescenderField) = -220
====
